---- MODULE Spec2Model ----
(***************************************************************************)
(* Model of the numeric and CREATE2 helpers of the coordinate repository:  *)
(*   Numbertheory.CRT                         (src/main/Math.py)           *)
(*   BlockchainUtils.GetSpecialAddressByCreate2      (src/main/Blockchain.py) *)
(*   BlockchainUtils.GetSpecialAddressByCreate2_two  (src/main/Blockchain.py) *)
(* Python strings are sequences of one-character strings; Python integers  *)
(* are TLA+ integers (the bounds keep every value far below 2^31).         *)
(***************************************************************************)
EXTENDS Integers, Sequences, FiniteSets, TLC

VARIABLES
    pc,            \* "idle", "crt_loop", "miner_loop", "done"
    op,            \* the function being executed: "none", "CRT", "Create2", "Create2_two"
    moudle,        \* CRT: the list of moduli (the source's spelling)
    a,             \* CRT: the list of remainders
    M,             \* CRT: product of the moduli
    k,             \* CRT: position of the for-loop in moudle (1-based)
    result,        \* CRT: the accumulator
    crt_ret,       \* CRT: outcome of the call
    DeployAddress, \* miner: deployer address string
    BytecodeHash,  \* miner: init-code hash string
    content,       \* miner: content (content1 of the two-constraint form)
    content2,      \* miner: content2 of the two-constraint form
    position,      \* miner: position (position1 of the two-constraint form)
    position2,     \* miner: position2 of the two-constraint form
    i,             \* miner: the salt counter
    start_time,    \* miner: time.time() when the search began
    now,           \* the wall clock, in seconds
    ret,           \* miner: outcome of the call
    logged,        \* miner: the exception the except-clause logged
    calls,         \* miner: how many times the call has been made
    first_ret,     \* miner: outcome of the first of two identical calls
    nonstr,        \* miner: the content argument that is not a str, or "none"
    account,       \* Account: "none", "ready" after __init__, "failed" when it raised
    Request,       \* Account: self._Request, the request-authorization switch
    explicit,      \* Account: the caller has set the switch since __init__
    acct_pc,       \* Account: position of the sending operation
    sending,       \* Account: the sending operation in progress or last made
    asked,         \* Account: input() was answered during this operation
    Command,       \* Account: the answer input() returned
    sent,          \* Account: this operation invoked send_raw_transaction
    broadcasts,    \* Account: invocations of send_raw_transaction so far
    tx_ret,        \* Account: outcome of the sending operation
    sig_pc,        \* signatures: which conversions have been made
    Signature,     \* signatures: argument of SignatureToRSV
    R,             \* signatures: argument R of RSVToSignature
    S,             \* signatures: argument S of RSVToSignature
    V,             \* signatures: argument V of RSVToSignature
    sig_ret,       \* signatures: outcome of the last conversion
    frames,        \* interleaved invocations: arguments, position and outcome
    locals         \* interleaved invocations: the local variables of each

vars == <<pc, op, moudle, a, M, k, result, crt_ret, DeployAddress, BytecodeHash,
          content, content2, position, position2, i, start_time, now, ret,
          logged, calls, first_ret, nonstr, account, Request, explicit, acct_pc,
          sending, asked, Command, sent, broadcasts, tx_ret, sig_pc, Signature,
          R, S, V, sig_ret, frames, locals>>

crtVars == <<moudle, a, M, k, result, crt_ret>>
minerVars == <<DeployAddress, BytecodeHash, content, content2, position,
               position2, i, start_time, ret, logged, calls, first_ret,
               nonstr>>
accountVars == <<account, Request, explicit, acct_pc, sending, asked, Command,
                 sent, broadcasts, tx_ret>>
sigVars == <<sig_pc, Signature, R, S, V, sig_ret>>
frameVars == <<frames, locals>>
\* the variables neither CRT nor the miners touch
otherVars == <<accountVars, sigVars, frameVars>>

----------------------------------------------------------------------------
(* Bounds of the model *)

\* longest moduli list drawn from the bounded input set
MaxLen == 3
\* largest modulus drawn from the bounded input set
MaxMod == 6
\* largest salt counter a search tries before it only waits for the timeout
MaxCounter == 12
\* latest clock value at which a search is started
MaxStartTime == 4
\* seconds between two observable values of the wall clock
ClockStep == 4
\* transactions an account broadcasts at most
MaxBroadcasts == 2

----------------------------------------------------------------------------
(* Numbertheory.CRT *)

\* reduce((lambda x, y : x * y), moudle) on a non-empty list
RECURSIVE Product(_)
Product(s) == IF Len(s) = 1 THEN s[1] ELSE s[1] * Product(Tail(s))

\* list.index(x): position (1-based here) of the first element equal to x
Index(s, x) == CHOOSE n \in 1..Len(s) : s[n] = x /\ \A j \in 1..(n-1) : s[j] # x

\* a gmpy2.invert that answers 0 where no inverse exists instead of raising
invertUnchecked(x, m) ==
    IF m > 0 /\ \E y \in 0..(m-1) : (x * y) % m = 1 % m
      THEN [ok |-> TRUE, value |-> CHOOSE y \in 0..(m-1) : (x * y) % m = 1 % m]
      ELSE [ok |-> TRUE, value |-> 0]

\* gmpy2.invert(x, m): the y in [0, m) with x*y == 1 (mod m); where there is
\* none it raises ZeroDivisionError ("invert() no inverse exists"): ok = FALSE.
\* For m = 1 the inverse is 0, as GMP 6 answers in the zero ring.
invert(x, m) ==
    IF m > 0 /\ \E y \in 0..(m-1) : (x * y) % m = 1 % m
      THEN [ok |-> TRUE, value |-> CHOOSE y \in 0..(m-1) : (x * y) % m = 1 % m]
      ELSE [ok |-> FALSE, value |-> 0]

NoReturn == [kind |-> "none", value |-> 0, exc |-> ""]
Returned(v) == [kind |-> "return", value |-> v, exc |-> ""]
Raised(e) == [kind |-> "raise", value |-> 0, exc |-> e]

\* a miner call that has not returned
NoPair == [kind |-> "none", salt |-> <<>>, address |-> <<>>]

\* the invocations that run interleaved
Invocations == {1, 2}

\* an invocation that has not been called
IdleFrame ==
    [kind |-> "none", pc |-> "idle", moudle |-> <<>>, a |-> <<>>,
     DeployAddress |-> <<>>, BytecodeHash |-> <<>>, content |-> <<>>,
     position |-> 0, crt_ret |-> NoReturn, ret |-> NoPair]

\* the local variables of an invocation before its call
NoLocals == [M |-> 0, k |-> 0, result |-> 0, i |-> 0]

\* no conversion of a signature made yet
NoResult == [kind |-> "none", Signature |-> <<>>, R |-> <<>>, S |-> <<>>,
             V |-> <<>>]

\* a loop body that reads the first remainder for every modulus
RemainderOfFirst(ms, as, mi) == as[1]

\* the remainder the loop body reads for modulus mi: a[moudle.index(mi)]
Remainder(ms, as, mi) == as[Index(ms, mi)]

\* an accumulation that leaves the modular inverse out
AccumulateNoInverse(res, rem, Mi, inv_Mi, MM) == (res + rem * Mi) % MM

\* an accumulation that is not reduced modulo M
AccumulateNoMod(res, rem, Mi, inv_Mi, MM) == res + rem * Mi * inv_Mi

\* the loop body's accumulation (Math.py line 39)
Accumulate(res, rem, Mi, inv_Mi, MM) == (res + rem * Mi * inv_Mi) % MM

\* the docstring's example call (Math.py lines 24-26): CRT([3,5,7],[2,4,3]) = 59
DocModuli == <<3, 5, 7>>
DocRemainders == <<2, 4, 3>>

\* the moduli lists a call is made with: every list of at most MaxLen positive
\* moduli up to MaxMod (the empty list included), and the docstring's example
ModuliLists == UNION {[1..n -> 1..MaxMod] : n \in 0..MaxLen} \cup {DocModuli}

RECURSIVE MaxOf(_)
MaxOf(s) == IF Len(s) = 0 THEN 0
            ELSE LET t == MaxOf(Tail(s)) IN IF s[1] > t THEN s[1] ELSE t

\* the remainder lists of the data model: same length, 0 <= a[j] < moudle[j]
InRangeRemainders(ms) ==
    {r \in [1..Len(ms) -> 0..(MaxOf(ms) - 1)] : \A j \in 1..Len(ms) : r[j] < ms[j]}

\* remainder lists whose length differs from the moduli's by one
MismatchedRemainders(ms) ==
    {SubSeq(r, 1, Len(r) - 1) : r \in {x \in InRangeRemainders(ms) : Len(x) > 0}}
    \cup {Append(r, 0) : r \in InRangeRemainders(ms)}

RemainderLists(ms) == InRangeRemainders(ms) \cup MismatchedRemainders(ms)

Init ==
    /\ pc = "idle"
    /\ op = "none"
    /\ moudle = <<>>
    /\ a = <<>>
    /\ M = 0
    /\ k = 0
    /\ result = 0
    /\ crt_ret = NoReturn
    /\ DeployAddress = <<>>
    /\ BytecodeHash = <<>>
    /\ content = <<>>
    /\ content2 = <<>>
    /\ position = 0
    /\ position2 = 0
    /\ i = 0
    /\ start_time = 0
    /\ now = 0
    /\ ret = NoPair
    /\ logged = ""
    /\ calls = 0
    /\ first_ret = NoPair
    /\ nonstr = "none"
    /\ account = "none"
    /\ Request = FALSE
    /\ explicit = FALSE
    /\ acct_pc = "idle"
    /\ sending = "none"
    /\ asked = FALSE
    /\ Command = ""
    /\ sent = FALSE
    /\ broadcasts = 0
    /\ tx_ret = "none"
    /\ sig_pc = "idle"
    /\ Signature = <<>>
    /\ R = <<>>
    /\ S = <<>>
    /\ V = <<>>
    /\ sig_ret = NoResult
    /\ frames = [f \in Invocations |-> IdleFrame]
    /\ locals = [f \in Invocations |-> NoLocals]

\* Math.py lines 34-35: entry of CRT; reduce() of an empty list raises TypeError
CallCRT ==
    /\ pc = "idle"
    /\ \E ms \in ModuliLists : \E as \in RemainderLists(ms) :
        /\ moudle' = ms
        /\ a' = as
        /\ op' = "CRT"
        /\ k' = 1
        /\ result' = 0
        /\ IF Len(ms) = 0
             THEN /\ M' = 0
                  /\ crt_ret' = Raised("TypeError")
                  /\ pc' = "done"
             ELSE /\ M' = Product(ms)
                  /\ crt_ret' = NoReturn
                  /\ pc' = "crt_loop"
    /\ UNCHANGED <<minerVars, otherVars, now>>

\* Math.py lines 36-39: one iteration of "for mi in moudle"
CRTIterate ==
    /\ pc = "crt_loop"
    /\ k <= Len(moudle)
    /\ LET mi == moudle[k]
           Mi == M \div mi
           inv_Mi == invert(Mi, mi)
       IN IF ~inv_Mi.ok
            THEN /\ crt_ret' = Raised("ZeroDivisionError")
                 /\ pc' = "done"
                 /\ UNCHANGED <<result, k>>
            ELSE IF Index(moudle, mi) > Len(a)
              THEN /\ crt_ret' = Raised("IndexError")
                   /\ pc' = "done"
                   /\ UNCHANGED <<result, k>>
              ELSE /\ result' = Accumulate(result, Remainder(moudle, a, mi), Mi,
                                           inv_Mi.value, M)
                   /\ k' = k + 1
                   /\ UNCHANGED <<crt_ret, pc>>
    /\ UNCHANGED <<op, moudle, a, M, minerVars, otherVars, now>>

\* Math.py line 40: return result % M
CRTReturn ==
    /\ pc = "crt_loop"
    /\ k > Len(moudle)
    /\ crt_ret' = Returned(result % M)
    /\ pc' = "done"
    /\ UNCHANGED <<op, moudle, a, M, k, result, minerVars, otherVars, now>>

CRTNext == CallCRT \/ CRTIterate \/ CRTReturn

CRTSpec == Init /\ [][CRTNext]_vars

----------------------------------------------------------------------------
(* Python string helpers used by the miners *)

\* digits rendered in uppercase
HexDigitsUpper == <<"0", "1", "2", "3", "4", "5", "6", "7",
                    "8", "9", "A", "B", "C", "D", "E", "F">>

\* the digits hex() and '%02x' render with
HexDigits == <<"0", "1", "2", "3", "4", "5", "6", "7",
               "8", "9", "a", "b", "c", "d", "e", "f">>

\* value of a hexadecimal digit as binascii.unhexlify reads it, -1 for any
\* other character
NibbleOf(c) ==
    CASE c = "0" -> 0 [] c = "1" -> 1 [] c = "2" -> 2 [] c = "3" -> 3
      [] c = "4" -> 4 [] c = "5" -> 5 [] c = "6" -> 6 [] c = "7" -> 7
      [] c = "8" -> 8 [] c = "9" -> 9
      [] c \in {"a", "A"} -> 10 [] c \in {"b", "B"} -> 11
      [] c \in {"c", "C"} -> 12 [] c \in {"d", "D"} -> 13
      [] c \in {"e", "E"} -> 14 [] c \in {"f", "F"} -> 15
      [] OTHER -> -1

\* hex(n)[2:] for n >= 0
RECURSIVE HexOf(_)
HexOf(n) == IF n < 16 THEN <<HexDigits[n + 1]>>
            ELSE Append(HexOf(n \div 16), HexDigits[(n % 16) + 1])

\* str.rjust(width, fill): pads on the left, never truncates
rjust(s, width, fill) ==
    IF Len(s) >= width THEN s ELSE [j \in 1..(width - Len(s)) |-> fill] \o s

\* s[lo:hi] with Python's handling of negative and out-of-range indices
PySlice(s, lo, hi) ==
    LET n == Len(s)
        norm(x) == IF x < 0 THEN (IF x + n < 0 THEN 0 ELSE x + n)
                   ELSE (IF x > n THEN n ELSE x)
    IN IF norm(lo) >= norm(hi) THEN <<>> ELSE SubSeq(s, norm(lo) + 1, norm(hi))

\* s[lo:]
PySliceFrom(s, lo) == PySlice(s, lo, Len(s))

\* a substring test that does not find the empty string
PyInProper(sub, s) ==
    /\ Len(sub) > 0
    /\ \E st \in 0..(Len(s) - Len(sub)) : SubSeq(s, st + 1, st + Len(sub)) = sub

\* sub in s, for strings
PyIn(sub, s) ==
    \E st \in 0..(Len(s) - Len(sub)) : SubSeq(s, st + 1, st + Len(sub)) = sub

----------------------------------------------------------------------------
(* Web3.keccak(hexstr=s) and the candidate address *)

\* width of the salt in hex characters (Blockchain.py line 1534)
SaltWidth == 64
\* the address is the rendered digest from this character on (line 1537)
AddressStart == 24
\* seconds after which the search gives up (line 1531)
Timeout == 10
\* the position treated as "anywhere in the tail" (lines 1546, 1550)
TailPosition == -4

\* remove_0x_prefix of eth_utils
Remove0x(s) ==
    IF Len(s) >= 2 /\ s[1] = "0" /\ s[2] \in {"x", "X"}
      THEN SubSeq(s, 3, Len(s)) ELSE s

\* to_bytes(hexstr=s): an odd-length string gets a leading 0, the 0x prefix is
\* removed and binascii.unhexlify decodes the rest, raising on any character
\* that is no hexadecimal digit. The bytes are given as their nibbles.
DecodeHex(s) ==
    LET body == Remove0x(s)
        padded == IF Len(s) % 2 = 1 THEN <<"0">> \o body ELSE body
    IN IF \E j \in 1..Len(padded) : NibbleOf(padded[j]) < 0
         THEN [ok |-> FALSE, nibbles |-> <<>>]
         ELSE [ok |-> TRUE, nibbles |-> [j \in 1..Len(padded) |-> NibbleOf(padded[j])]]

\* Stand-in for the Keccak-256 sponge: a deterministic function of the input
\* bytes. Absorb folds the nibbles lo..hi of the message into a polynomial
\* value v with its weight p, halving the range to keep the recursion shallow.
RECURSIVE Absorb(_, _, _)
Absorb(nibbles, lo, hi) ==
    IF lo = hi THEN [v |-> nibbles[lo] + 1, p |-> 31]
    ELSE LET mid == (lo + hi) \div 2
             l == Absorb(nibbles, lo, mid)
             r == Absorb(nibbles, mid + 1, hi)
         IN [v |-> (l.v * r.p + r.v) % 8191, p |-> (l.p * r.p) % 8191]

\* the 32-byte digest, rendered by ''.join(['%02x' % b for b in hashed])
Keccak256Hex(nibbles) ==
    LET m == Absorb(nibbles, 1, Len(nibbles))
        h == (7 * m.p + m.v) % 8191
    IN [n \in 1..64 |->
          HexDigits[((((h + 89 * n) * ((h % 127) + n)) % 8191) % 16) + 1]]

\* a salt rendered without the padding
SaltUnpadded(n) == HexOf(n)

\* salt = hex(i)[2:].rjust(64, '0')
Salt(n) == rjust(HexOf(n), SaltWidth, "0")

\* s = '0xff' + DeployAddress + salt + BytecodeHash
Preimage(deploy, salt, hash) == <<"0", "x", "f", "f">> \o deploy \o salt \o hash

\* address = (rendered digest)[24:]
AddressOf(deploy, salt, hash) ==
    LET d == DecodeHex(Preimage(deploy, salt, hash))
    IN IF d.ok
         THEN [ok |-> TRUE, address |-> PySliceFrom(Keccak256Hex(d.nibbles), AddressStart)]
         ELSE [ok |-> FALSE, address |-> <<>>]

----------------------------------------------------------------------------
(* The acceptance tests of the two miners *)

\* a test that looks for content anywhere in the address
Create2MatchAnywhere(c, p, address) == PyIn(c, address)

\* a test without the branch of lines 1550-1553: position -4 is sliced like
\* any other position
Create2MatchNoTail(c, p, address) == PyIn(c, PySlice(address, p, p + Len(c)))

\* lines 1538-1553: the if/elif chain of GetSpecialAddressByCreate2
Create2Match(c, p, address) ==
    \/ p = 0 /\ PyIn(c, PySlice(address, p, p + Len(c)))
    \/ p > 0 /\ PyIn(c, PySlice(address, p, p + Len(c)))
    \/ p < 0 /\ p # TailPosition /\ PyIn(c, PySlice(address, p, p + Len(c)))
    \/ p = TailPosition /\ PyIn(c, PySliceFrom(address, p))

\* a test that accepts when either constraint is met
Create2TwoMatchEither(c1, c2, p1, p2, address) ==
    \/ PyIn(c1, PySlice(address, p1, p1 + Len(c1)))
    \/ PyIn(c2, PySlice(address, p2, p2 + Len(c2)))

\* a test that looks at the first constraint only
Create2TwoMatchFirstOnly(c1, c2, p1, p2, address) ==
    PyIn(c1, PySlice(address, p1, p1 + Len(c1)))

\* line 1598: the test of GetSpecialAddressByCreate2_two
Create2TwoMatch(c1, c2, p1, p2, address) ==
    /\ PyIn(c1, PySlice(address, p1, p1 + Len(c1)))
    /\ PyIn(c2, PySlice(address, p2, p2 + Len(c2)))

\* a counter that is never reset: a call carries on after the last salt tried
StartCounterCarried(previous) == previous + 1

\* lines 1524, 1584: i = 0, whatever an earlier call left behind
StartCounter(previous) == 0

\* a counter that advances by two
NextCounterSkipping(n) == n + 2

\* lines 1556, 1604: i += 1
NextCounter(n) == n + 1

\* an elapsed time computed with the operands swapped
ElapsedReversed(current_time, started) == started - current_time

\* lines 1529, 1589: elapsed_time = current_time - start_time
Elapsed(current_time, started) == current_time - started

\* lines 1541, 1545, 1549, 1553, 1601: return "0x" + salt, "0x" + address
Pair(salt, address) ==
    [kind |-> "pair", salt |-> <<"0", "x">> \o salt, address |-> <<"0", "x">> \o address]

\* an except clause that lets the exception go on to the caller
ExceptReturnRaises == [kind |-> "raise", salt |-> <<>>, address |-> <<>>]

\* an except clause that returns a pair of empty strings
ExceptReturnPair == [kind |-> "pair", salt |-> <<>>, address |-> <<>>]

\* lines 1557-1562, 1605-1610: the except clause returns None
ExceptReturn == [kind |-> "None", salt |-> <<>>, address |-> <<>>]

----------------------------------------------------------------------------
(* The calls made to the miners *)

\* the deployer of the docstring's example (Blockchain.py line 1520)
DocDeployAddress ==
    <<"4", "0", "6", "1", "8", "7", "E", "1", "b", "3", "3", "6", "6", "B",
    "5", "d", "a", "3", "5", "3", "9", "D", "9", "9", "C", "4", "E", "8",
    "8", "E", "4", "2", "F", "C", "6", "0", "D", "e", "5", "0">>

\* the init-code hash of the docstring's example (line 1520)
DocBytecodeHash ==
    <<"d", "a", "6", "4", "7", "0", "1", "0", "3", "5", "5", "6", "0", "8",
    "4", "4", "2", "b", "3", "e", "a", "b", "6", "8", "e", "7", "d", "c",
    "c", "6", "d", "5", "b", "8", "3", "6", "f", "2", "6", "2", "8", "d",
    "2", "3", "6", "6", "f", "f", "8", "a", "e", "8", "5", "3", "4", "1",
    "3", "a", "6", "4", "3", "9", "6", "5">>

\* a deployer string of 19 bytes
ShortDeployAddress == SubSeq(DocDeployAddress, 1, 38)

\* the docstring's deployer written with a 0x prefix
PrefixedDeployAddress == <<"0", "x">> \o DocDeployAddress

Deployers == {DocDeployAddress, ShortDeployAddress, PrefixedDeployAddress}

\* the docstring's init-code hash written with a 0x prefix
PrefixedBytecodeHash == <<"0", "x">> \o DocBytecodeHash

Hashes == {DocBytecodeHash, PrefixedBytecodeHash}

\* what the content variable holds when the argument is not a str (an int,
\* None): the value is never read as text
NotAString == <<>>

\* contents and positions of the single-constraint calls
Contents == {<<>>, <<"a">>, <<"5">>, <<"a", "9">>, <<"6", "a">>, <<"A">>}
Positions == {0, 1, 38, 39, -2, -3, TailPosition, -41}

\* contents and positions of the two-constraint calls
Contents1 == {<<>>, <<"a">>, <<"5">>}
Contents2 == {<<>>, <<"a">>, <<"b">>, <<"A">>}
Positions2 == {0, 1, 39, -3}

\* the addresses of the counters a bounded search can reach, computed once
AddressTable ==
    [d \in Deployers, h \in Hashes, n \in 0..(MaxCounter + 3) |->
        AddressOf(d, Salt(n), h)]

\* the address of counter n's salt
AddressAt(deploy, hash, n) ==
    IF <<deploy, hash, n>> \in DOMAIN AddressTable
      THEN AddressTable[deploy, hash, n]
      ELSE AddressOf(deploy, Salt(n), hash)

\* a loop body that pairs the salt of counter n with the address of the next
\* counter's salt
CandidateStale(deploy, hash, n) ==
    LET c == AddressAt(deploy, hash, n + 1)
    IN [ok |-> c.ok, salt |-> Salt(n), address |-> c.address]

\* lines 1534-1537 (and 1594-1597): the salt and the address of counter n;
\* ok = FALSE when Web3.keccak raised
Candidate(deploy, hash, n) ==
    LET c == AddressAt(deploy, hash, n)
    IN [ok |-> c.ok, salt |-> Salt(n), address |-> c.address]

----------------------------------------------------------------------------
(* GetSpecialAddressByCreate2 and GetSpecialAddressByCreate2_two *)

\* the wall clock advances. Before a call it is followed up to MaxStartTime,
\* during a search up to the moment the timeout test succeeds.
Tick ==
    /\ \/ pc = "idle" /\ now + ClockStep <= MaxStartTime
       \/ pc = "miner_loop" /\ now - start_time < Timeout
    /\ now' = now + ClockStep
    /\ UNCHANGED <<pc, op, crtVars, otherVars, minerVars>>

\* lines 1523-1525: entry of GetSpecialAddressByCreate2
CallCreate2 ==
    /\ pc = "idle"
    /\ \E d \in Deployers, h \in Hashes, c \in Contents, p \in Positions,
          ns \in {"none", "content"} :
        /\ ns = "content" => c = NotAString
        /\ DeployAddress' = d
        /\ BytecodeHash' = h
        /\ content' = c
        /\ position' = p
        /\ nonstr' = ns
    /\ op' = "Create2"
    /\ pc' = "miner_loop"
    /\ i' = StartCounter(i)
    /\ start_time' = now
    /\ calls' = 1
    /\ UNCHANGED <<content2, position2, ret, logged, first_ret, crtVars,
                   otherVars, now>>

\* lines 1583-1585: entry of GetSpecialAddressByCreate2_two
CallCreate2_two ==
    /\ pc = "idle"
    /\ \E d \in Deployers, h \in Hashes, c1 \in Contents1, c2 \in Contents2,
          p1 \in Positions2, p2 \in Positions2,
          ns \in {"none", "content", "content2"} :
        /\ ns = "content" => c1 = NotAString
        /\ ns = "content2" => c2 = NotAString
        /\ DeployAddress' = d
        /\ BytecodeHash' = h
        /\ content' = c1
        /\ content2' = c2
        /\ position' = p1
        /\ position2' = p2
        /\ nonstr' = ns
    /\ op' = "Create2_two"
    /\ pc' = "miner_loop"
    /\ i' = StartCounter(i)
    /\ start_time' = now
    /\ calls' = 1
    /\ UNCHANGED <<ret, logged, first_ret, crtVars, otherVars, now>>

\* the same call made a second time, after the first one returned: lines
\* 1523-1525 (and 1583-1585) run again, on the same arguments
CallAgain ==
    /\ pc = "done"
    /\ op \in {"Create2", "Create2_two"}
    /\ calls = 1
    /\ first_ret' = ret
    /\ ret' = NoPair
    /\ logged' = ""
    /\ calls' = 2
    /\ pc' = "miner_loop"
    /\ i' = StartCounter(i)
    /\ start_time' = now
    /\ UNCHANGED <<op, DeployAddress, BytecodeHash, content, content2, position,
                   position2, nonstr, crtVars, otherVars, now>>

\* lines 1532, 1592: the exception raised by the timeout test
TimeoutMessage == "time out,maybe a wrong position"

\* the exception Web3.keccak raises on a string that is no hexadecimal number
HexErrorMessage == "binascii.Error: Non-hexadecimal digit found"

\* the exception len(content) and "content in address[...]" raise on a content
\* that is not a str
TypeErrorMessage == "TypeError"

\* The test of the pass raises TypeError: every branch of lines 1538-1550
\* evaluates content, and line 1598 evaluates content1 and, only when
\* content1 was found, content2.
TestRaises(address) ==
    \/ nonstr = "content"
    \/ /\ nonstr = "content2"
       /\ op = "Create2_two"
       /\ PyIn(content, PySlice(address, position, position + Len(content)))

\* a pass that computes and tests the candidate first and looks at the clock
\* only when the candidate was rejected
LoopPassCandidateFirst(accepted) ==
    LET cand == Candidate(DeployAddress, BytecodeHash, i)
    IN IF ~cand.ok
         THEN /\ logged' = HexErrorMessage
              /\ ret' = ExceptReturn
              /\ pc' = "done"
              /\ i' = i
         ELSE IF TestRaises(cand.address)
           THEN /\ logged' = TypeErrorMessage
                /\ ret' = ExceptReturn
                /\ pc' = "done"
                /\ i' = i
         ELSE IF accepted
           THEN /\ ret' = Pair(cand.salt, cand.address)
                /\ pc' = "done"
                /\ UNCHANGED <<i, logged>>
           ELSE IF Elapsed(now, start_time) >= Timeout
             THEN /\ logged' = TimeoutMessage
                  /\ ret' = ExceptReturn
                  /\ pc' = "done"
                  /\ i' = i
             ELSE /\ i < MaxCounter
                  /\ i' = NextCounter(i)
                  /\ UNCHANGED <<ret, logged, pc>>

\* One pass of the while loop of either miner, given whether the test of the
\* miner accepts the address of this pass: the timeout test (lines 1528-1532), the candidate
\* (1534-1537), the return of an accepted candidate, otherwise i += 1; any
\* exception ends in the except clause (1557-1562). A search that reached
\* MaxCounter without a match only waits for the timeout.
LoopPass(accepted) ==
    LET cand == Candidate(DeployAddress, BytecodeHash, i)
    IN IF Elapsed(now, start_time) >= Timeout
         THEN /\ logged' = TimeoutMessage
              /\ ret' = ExceptReturn
              /\ pc' = "done"
              /\ i' = i
         ELSE IF ~cand.ok
           THEN /\ logged' = HexErrorMessage
                /\ ret' = ExceptReturn
                /\ pc' = "done"
                /\ i' = i
           ELSE IF TestRaises(cand.address)
             THEN /\ logged' = TypeErrorMessage
                  /\ ret' = ExceptReturn
                  /\ pc' = "done"
                  /\ i' = i
           ELSE IF accepted
             THEN /\ ret' = Pair(cand.salt, cand.address)
                  /\ pc' = "done"
                  /\ UNCHANGED <<i, logged>>
             ELSE /\ i < MaxCounter
                  /\ i' = NextCounter(i)
                  /\ UNCHANGED <<ret, logged, pc>>

\* lines 1527-1556: one pass of the loop of GetSpecialAddressByCreate2
Create2Iterate ==
    /\ pc = "miner_loop"
    /\ op = "Create2"
    /\ LoopPass(Create2Match(content, position,
                     Candidate(DeployAddress, BytecodeHash, i).address))
    /\ UNCHANGED <<op, DeployAddress, BytecodeHash, content, content2, position,
                   position2, start_time, now, calls, first_ret, nonstr, crtVars,
                   otherVars>>

\* lines 1587-1604: one pass of the loop of GetSpecialAddressByCreate2_two
Create2_twoIterate ==
    /\ pc = "miner_loop"
    /\ op = "Create2_two"
    /\ LoopPass(Create2TwoMatch(content, content2, position, position2,
                     Candidate(DeployAddress, BytecodeHash, i).address))
    /\ UNCHANGED <<op, DeployAddress, BytecodeHash, content, content2, position,
                   position2, start_time, now, calls, first_ret, nonstr, crtVars,
                   otherVars>>

MinerNext == Tick \/ CallCreate2 \/ CallCreate2_two \/ CallAgain
                \/ Create2Iterate \/ Create2_twoIterate

MinerSpec == Init /\ [][MinerNext]_vars

\* the loops keep running and the clock keeps advancing
FairMinerSpec ==
    MinerSpec /\ WF_vars(Tick) /\ WF_vars(Create2Iterate)
              /\ WF_vars(Create2_twoIterate)

----------------------------------------------------------------------------
(* Account: the request-authorization switch and the sending operations *)

\* the operations that end in send_raw_transaction: the five of Account and
\* the two of Contract that go through Account.SendTransaction
SendOps == {"Transfer", "SendTransaction", "SendTransactionByEIP1559",
            "DeployContract", "DeployContractWithoutABI", "CallFunction",
            "CallFunctionWithParameters"}

\* the operations of Contract, which build the transaction outside any try
ContractOps == {"CallFunction", "CallFunctionWithParameters"}

\* answers typed at the prompt "Command Input (yes/1/[Enter] or no/0):"
Commands == {"", "yes", "1", "no", "0", "maybe", "Yes"}

\* a prompt that cancels on "no" and "0" only
CancelledOnRefusalOnly(cmd) == cmd = "no" \/ cmd = "0"

\* lines 447, 494, 548, 595, 644: the answers that raise "Cancel sending
\* transaction."
Cancelled(cmd) ==
    \/ cmd = "no"
    \/ cmd = "0"
    \/ (cmd # "" /\ cmd # "yes" /\ cmd # "1")

\* lines 450-452 (497-499, 551-553, 598-606, 647-649): send_raw_transaction
\* is invoked; the operation returns the transaction information, or None when
\* the node raised
Broadcast(delivered) ==
    /\ sent' = TRUE
    /\ broadcasts' = broadcasts + 1
    /\ tx_ret' = IF delivered THEN "info" ELSE "None"
    /\ acct_pc' = "returned"

\* lines 363-384: Account.__init__; a private key that cannot be imported
\* raises "Failed to import account."
AccountInit ==
    /\ account = "none"
    /\ \E imported \in BOOLEAN :
        IF imported
          THEN /\ account' = "ready"
               /\ Request' = TRUE
          ELSE /\ account' = "failed"
               /\ UNCHANGED Request
    /\ UNCHANGED <<explicit, acct_pc, sending, asked, Command, sent, broadcasts,
                   tx_ret, pc, op, crtVars, minerVars, sigVars, frameVars,
                   now>>

\* lines 386-398: RequestAuthorizationBeforeSendTransaction(Open), called by
\* the user of the account
CallRequestAuthorization ==
    /\ account = "ready"
    /\ acct_pc = "idle"
    /\ \E Open \in BOOLEAN : Request' = Open
    /\ explicit' = TRUE
    /\ UNCHANGED <<account, acct_pc, sending, asked, Command, sent, broadcasts,
                   tx_ret, pc, op, crtVars, minerVars, sigVars, frameVars,
                   now>>

\* A sending operation up to its prompt: the transaction is built and signed
\* (an exception there ends in the except clause and None, or leaves
\* Contract.CallFunction as an exception); with the switch on the operation
\* waits in input(), with the switch off it broadcasts at once.
CallSend ==
    /\ account = "ready"
    /\ acct_pc = "idle"
    /\ broadcasts < MaxBroadcasts
    /\ \E o \in SendOps, prepared \in {"signed", "sign_raised", "build_raised"},
          delivered \in BOOLEAN :
        /\ prepared = "build_raised" => o \in ContractOps
        /\ sending' = o
        /\ asked' = FALSE
        /\ Command' = ""
        /\ IF prepared # "signed"
             THEN /\ tx_ret' = IF prepared = "build_raised" THEN "raise"
                               ELSE "None"
                  /\ acct_pc' = "returned"
                  /\ sent' = FALSE
                  /\ UNCHANGED broadcasts
             ELSE IF Request
               THEN /\ acct_pc' = "input"
                    /\ tx_ret' = "none"
                    /\ sent' = FALSE
                    /\ UNCHANGED broadcasts
               ELSE Broadcast(delivered)
    /\ UNCHANGED <<account, Request, explicit, pc, op, crtVars, minerVars,
                   sigVars, frameVars, now>>

\* the user answers the prompt and the operation runs to its end: a
\* cancelling answer raises and the except clause returns None, any other
\* answer lets the transaction go out
UserAnswers ==
    /\ acct_pc = "input"
    /\ \E cmd \in Commands, delivered \in BOOLEAN :
        /\ Command' = cmd
        /\ asked' = TRUE
        /\ IF Cancelled(cmd)
             THEN /\ tx_ret' = "None"
                  /\ acct_pc' = "returned"
                  /\ UNCHANGED <<sent, broadcasts>>
             ELSE Broadcast(delivered)
    /\ UNCHANGED <<account, Request, explicit, sending, pc, op, crtVars,
                   minerVars, sigVars, frameVars, now>>

\* the caller has the result and may use the account again
ReturnToCaller ==
    /\ acct_pc = "returned"
    /\ acct_pc' = "idle"
    /\ UNCHANGED <<account, Request, explicit, sending, asked, Command, sent,
                   broadcasts, tx_ret, pc, op, crtVars, minerVars, sigVars,
                   frameVars, now>>

AccountNext == AccountInit \/ CallRequestAuthorization \/ CallSend
                  \/ UserAnswers \/ ReturnToCaller

AccountSpec == Init /\ [][AccountNext]_vars

----------------------------------------------------------------------------
(* SignatureToRSV and RSVToSignature *)

\* str.lower() of one character of a hexadecimal number
LowerChar(c) == IF NibbleOf(c) >= 0 THEN HexDigits[NibbleOf(c) + 1] ELSE c

\* the string without its leading "0" characters
RECURSIVE StripZeros(_)
StripZeros(s) ==
    IF Len(s) > 0 /\ s[1] = "0" THEN StripZeros(Tail(s)) ELSE s

\* hex(int(s, 16)): int() reads the digits behind an optional 0x prefix and
\* raises ValueError on anything else; hex() renders the number in lowercase
\* without leading zeros ("0x0" for zero)
HexOfInt(s) ==
    LET body == Remove0x(s)
    IN IF Len(body) = 0 \/ \E j \in 1..Len(body) : NibbleOf(body[j]) < 0
         THEN [ok |-> FALSE, text |-> <<>>]
         ELSE LET digits == StripZeros([j \in 1..Len(body) |-> LowerChar(body[j])])
              IN [ok |-> TRUE,
                  text |-> <<"0", "x">> \o (IF Len(digits) = 0 THEN <<"0">>
                                            ELSE digits)]

\* the except clauses of lines 1116-1121 and 1151-1156: return None
ConversionFailed == [kind |-> "None", Signature |-> <<>>, R |-> <<>>,
                     S |-> <<>>, V |-> <<>>]

\* lines 1104-1115: SignatureToRSV
SignatureToRSV(sig) ==
    LET n == HexOfInt(sig)
    IN IF ~n.ok \/ Len(n.text) # 130 + 2
         THEN ConversionFailed
         ELSE [kind |-> "dict",
               Signature |-> n.text,
               R |-> <<"0", "x">> \o PySlice(n.text, 2, 66),
               S |-> <<"0", "x">> \o PySlice(n.text, 66, -2),
               V |-> <<"0", "x">> \o PySliceFrom(n.text, -2)]

\* lines 1137-1150: RSVToSignature
RSVToSignature(r, s, v) ==
    LET rr == HexOfInt(r)
        ss == HexOfInt(s)
        vv == HexOfInt(v)
    IN IF ~rr.ok \/ ~ss.ok \/ ~vv.ok
          \/ ~(Len(rr.text) = 64 + 2 /\ Len(ss.text) = 64 + 2
               /\ Len(vv.text) = 2 + 2)
         THEN ConversionFailed
         ELSE [kind |-> "dict",
               Signature |-> <<"0", "x">> \o PySliceFrom(rr.text, 2)
                                \o PySliceFrom(ss.text, 2)
                                \o PySliceFrom(vv.text, 2),
               R |-> rr.text,
               S |-> ss.text,
               V |-> vv.text]

\* the r and s of the usage examples 5 and 6 (often.py lines 24, 27)
DocR ==
    <<"0", "x">> \o
    <<"c", "1", "4", "e", "9", "6", "2", "f", "3", "2", "c", "c", "e",
    "d", "f", "7", "1", "2", "c", "8", "0", "2", "4", "2", "2", "7", "5",
    "a", "6", "5", "a", "6", "d", "c", "0", "7", "1", "5", "9", "2", "c",
    "f", "c", "b", "b", "6", "a", "c", "9", "9", "2", "1", "7", "0", "d",
    "2", "b", "8", "6", "5", "f", "8", "e", "b">>

DocS ==
    <<"0", "x">> \o
    <<"7", "b", "7", "c", "4", "a", "c", "a", "2", "a", "c", "6", "e",
    "7", "0", "6", "0", "9", "9", "7", "a", "b", "e", "8", "2", "f", "3",
    "1", "0", "2", "b", "4", "a", "0", "0", "1", "7", "e", "7", "2", "5",
    "b", "e", "3", "1", "0", "2", "8", "4", "4", "0", "6", "e", "9", "7",
    "5", "6", "2", "2", "3", "f", "f", "9", "3">>

\* 32 bytes written as 0x, a first digit and one digit repeated 63 times
Word(first, fill) == <<"0", "x", first>> \o [j \in 1..63 |-> fill]

\* the r, s and v values the conversions are called with: every one is 32
\* bytes (1 byte for v) behind a 0x prefix
RValues == {Word(f, c) : f \in {"0", "c", "C"}, c \in {"a", "3"}} \cup {DocR}
SValues == {Word(f, c) : f \in {"0", "7", "f"}, c \in {"a", "3"}} \cup {DocS}
VValues == {<<"0", "x", "1", "b">>, <<"0", "x", "1", "c">>,
            <<"0", "x", "0", "1">>, <<"0", "x", "0", "0">>}

\* the 65-byte signature made of r, s and v
Concatenated(r, s, v) ==
    <<"0", "x">> \o Remove0x(r) \o Remove0x(s) \o Remove0x(v)

\* SignatureToRSV is called on a 65-byte signature
CallSignatureToRSV ==
    /\ sig_pc = "idle"
    /\ \E r \in RValues, s \in SValues, v \in VValues :
        /\ (r = DocR) = (s = DocS)
        /\ Signature' = Concatenated(r, s, v)
        /\ sig_ret' = SignatureToRSV(Concatenated(r, s, v))
    /\ sig_pc' = "split"
    /\ UNCHANGED <<R, S, V, pc, op, crtVars, minerVars, accountVars,
                   frameVars, now>>

\* RSVToSignature is called on the R, S and V that SignatureToRSV returned
MergeReturned ==
    /\ sig_pc = "split"
    /\ sig_ret.kind = "dict"
    /\ R' = sig_ret.R
    /\ S' = sig_ret.S
    /\ V' = sig_ret.V
    /\ sig_ret' = RSVToSignature(sig_ret.R, sig_ret.S, sig_ret.V)
    /\ sig_pc' = "split_merged"
    /\ UNCHANGED <<Signature, pc, op, crtVars, minerVars, accountVars,
                   frameVars, now>>

\* RSVToSignature is called on a 32-byte R, a 32-byte S and a 1-byte V
CallRSVToSignature ==
    /\ sig_pc = "idle"
    /\ \E r \in RValues, s \in SValues, v \in VValues :
        /\ (r = DocR) = (s = DocS)
        /\ R' = r
        /\ S' = s
        /\ V' = v
        /\ sig_ret' = RSVToSignature(r, s, v)
    /\ sig_pc' = "merged"
    /\ UNCHANGED <<Signature, pc, op, crtVars, minerVars, accountVars,
                   frameVars, now>>

\* SignatureToRSV is called on the signature that RSVToSignature returned
SplitReturned ==
    /\ sig_pc = "merged"
    /\ sig_ret.kind = "dict"
    /\ Signature' = sig_ret.Signature
    /\ sig_ret' = SignatureToRSV(sig_ret.Signature)
    /\ sig_pc' = "merged_split"
    /\ UNCHANGED <<R, S, V, pc, op, crtVars, minerVars, accountVars,
                   frameVars, now>>

SignatureNext == CallSignatureToRSV \/ MergeReturned \/ CallRSVToSignature
                    \/ SplitReturned

SignatureSpec == Init /\ [][SignatureNext]_vars

----------------------------------------------------------------------------
(* Two invocations whose steps interleave *)

\* where invocation f keeps M, result, the loop position and i: in its own
\* call frame. The mutation below keeps them in one place for all calls.
SlotShared(f) == 1

\* Math.py lines 34-39, Blockchain.py lines 1524-1556: the names assigned in
\* a function body are local to the call
Slot(f) == f

\* the calls of CRT that run interleaved
FrameCRTCalls ==
    {<<DocModuli, DocRemainders>>, <<<<2, 3>>, <<1, 2>>>>,
     <<<<4, 6>>, <<1, 1>>>>, <<<<5>>, <<3>>>>}

\* the calls of GetSpecialAddressByCreate2 that run interleaved: content and
\* position, on the deployer and hash of the docstring
FrameCreate2Calls ==
    {<<<<>>, 0>>, <<<<"a">>, 1>>, <<<<"5">>, 1>>, <<<<"A">>, 0>>}

\* Math.py lines 34-35: invocation f enters CRT
FrameCallCRT ==
    \E f \in Invocations :
    /\ frames[f].pc = "idle"
    /\ \E call \in FrameCRTCalls :
        /\ frames' = [frames EXCEPT ![f] =
              [IdleFrame EXCEPT !.kind = "CRT", !.pc = "running",
                                !.moudle = call[1], !.a = call[2]]]
        /\ locals' = [locals EXCEPT ![Slot(f)] =
              [@ EXCEPT !.M = Product(call[1]), !.k = 1, !.result = 0]]
    /\ UNCHANGED <<pc, op, crtVars, minerVars, accountVars, sigVars, now>>

\* Math.py lines 36-39: invocation f makes one iteration of the loop of CRT
FrameCRTIterate ==
    \E f \in Invocations :
    LET fr == frames[f]
        l == locals[Slot(f)]
    IN /\ fr.kind = "CRT"
       /\ fr.pc = "running"
       /\ l.k <= Len(fr.moudle)
       /\ LET mi == fr.moudle[l.k]
              Mi == l.M \div mi
              inv_Mi == invert(Mi, mi)
          IN IF ~inv_Mi.ok
               THEN /\ frames' = [frames EXCEPT ![f].pc = "done",
                                    ![f].crt_ret = Raised("ZeroDivisionError")]
                    /\ UNCHANGED locals
               ELSE /\ locals' = [locals EXCEPT ![Slot(f)] = [@ EXCEPT
                          !.result = Accumulate(l.result,
                                        Remainder(fr.moudle, fr.a, mi), Mi,
                                        inv_Mi.value, l.M),
                          !.k = l.k + 1]]
                    /\ UNCHANGED frames
       /\ UNCHANGED <<pc, op, crtVars, minerVars, accountVars, sigVars, now>>

\* Math.py line 40: invocation f returns from CRT
FrameCRTReturn ==
    \E f \in Invocations :
    LET fr == frames[f]
        l == locals[Slot(f)]
    IN /\ fr.kind = "CRT"
       /\ fr.pc = "running"
       /\ l.k > Len(fr.moudle)
       /\ frames' = [frames EXCEPT ![f].pc = "done",
                                   ![f].crt_ret = Returned(l.result % l.M)]
       /\ UNCHANGED locals
       /\ UNCHANGED <<pc, op, crtVars, minerVars, accountVars, sigVars, now>>

\* Blockchain.py lines 1523-1525: invocation f enters GetSpecialAddressByCreate2
FrameCallCreate2 ==
    \E f \in Invocations :
    /\ frames[f].pc = "idle"
    /\ \E call \in FrameCreate2Calls :
        /\ frames' = [frames EXCEPT ![f] =
              [IdleFrame EXCEPT !.kind = "Create2", !.pc = "running",
                                !.DeployAddress = DocDeployAddress,
                                !.BytecodeHash = DocBytecodeHash,
                                !.content = call[1], !.position = call[2]]]
        /\ locals' = [locals EXCEPT ![Slot(f)] = [@ EXCEPT !.i = StartCounter(@)]]
    /\ UNCHANGED <<pc, op, crtVars, minerVars, accountVars, sigVars, now>>

\* Blockchain.py lines 1527-1556: invocation f makes one pass of the loop of
\* GetSpecialAddressByCreate2; whether its 10 seconds are over is up to the
\* clock
FrameCreate2Iterate ==
    \E f \in Invocations :
    LET fr == frames[f]
        l == locals[Slot(f)]
        cand == Candidate(fr.DeployAddress, fr.BytecodeHash, l.i)
    IN /\ fr.kind = "Create2"
       /\ fr.pc = "running"
       /\ \E timed_out \in BOOLEAN :
            IF timed_out
              THEN /\ frames' = [frames EXCEPT ![f].pc = "done",
                                               ![f].ret = ExceptReturn]
                   /\ UNCHANGED locals
              ELSE IF Create2Match(fr.content, fr.position, cand.address)
                THEN /\ frames' = [frames EXCEPT ![f].pc = "done",
                                     ![f].ret = Pair(cand.salt, cand.address)]
                     /\ UNCHANGED locals
                ELSE /\ l.i < MaxCounter
                     /\ locals' = [locals EXCEPT ![Slot(f)].i = NextCounter(l.i)]
                     /\ UNCHANGED frames
       /\ UNCHANGED <<pc, op, crtVars, minerVars, accountVars, sigVars, now>>

InterleavedNext == FrameCallCRT \/ FrameCRTIterate \/ FrameCRTReturn
                      \/ FrameCallCreate2 \/ FrameCreate2Iterate

InterleavedSpec == Init /\ [][InterleavedNext]_vars

Next == CRTNext \/ MinerNext \/ AccountNext \/ SignatureNext
            \/ InterleavedNext

Spec == Init /\ [][Next]_vars

----------------------------------------------------------------------------
(* Properties of Numbertheory.CRT *)

RECURSIVE GCD(_, _)
GCD(x, y) == IF y = 0 THEN x ELSE GCD(y, x % y)

PairwiseCoprime(ms) ==
    \A p \in 1..Len(ms) : \A q \in 1..Len(ms) : p # q => GCD(ms[p], ms[q]) = 1

\* the call's inputs satisfy the data model: equal lengths, 0 <= a[j] < moudle[j]
WellFormedCall ==
    /\ Len(a) = Len(moudle)
    /\ \A j \in 1..Len(moudle) : 0 <= a[j] /\ a[j] < moudle[j]

CRTReturned == op = "CRT" /\ pc = "done" /\ crt_ret.kind = "return"

\* C1: round trip. When CRT returns r for pairwise-coprime positive moduli and
\* in-range remainders of the same length, r mod moudle[j] = a[j] for every j.
C1_RoundTrip ==
    (CRTReturned /\ PairwiseCoprime(moudle) /\ WellFormedCall)
        => \A j \in 1..Len(moudle) : crt_ret.value % moudle[j] = a[j]

\* C1 witness: CRT has returned for three pairwise-coprime moduli above 1 with
\* three different non-zero remainders.
C1_Witness ==
    /\ CRTReturned /\ PairwiseCoprime(moudle) /\ WellFormedCall
    /\ Len(moudle) = 3
    /\ \A j \in 1..3 : moudle[j] > 1 /\ a[j] > 0
    /\ a[1] # a[2] /\ a[2] # a[3] /\ a[1] # a[3]

\* C2: least non-negative solution. The accumulator is in [0, M) after every
\* loop iteration; for pairwise-coprime moduli the returned value is in [0, M)
\* and is the only value of [0, M) meeting every congruence; and
\* CRT([3,5,7],[2,4,3]) returns 59.
C2_LeastSolution ==
    /\ (op = "CRT" /\ Len(moudle) > 0) => (0 <= result /\ result < M)
    /\ (CRTReturned /\ PairwiseCoprime(moudle) /\ WellFormedCall) =>
          /\ 0 <= crt_ret.value /\ crt_ret.value < M
          /\ \A x \in 0..(M - 1) :
                (\A j \in 1..Len(moudle) : x % moudle[j] = a[j]) => x = crt_ret.value
    /\ (op = "CRT" /\ pc = "done" /\ moudle = DocModuli /\ a = DocRemainders)
          => crt_ret = Returned(59)

\* C2 witness: the call CRT([3,5,7],[2,4,3]) has returned.
C2_Witness ==
    CRTReturned /\ moudle = DocModuli /\ a = DocRemainders /\ k = 4 /\ result > 0

\* C3: non-coprime moduli. A finished call whose (positive) moduli are not
\* pairwise coprime has raised gmpy2's no-inverse ZeroDivisionError and has
\* returned no integer.
C3_NonCoprimeFails ==
    (op = "CRT" /\ pc = "done" /\ ~PairwiseCoprime(moudle))
        => crt_ret = Raised("ZeroDivisionError")

\* C3 witness: the call CRT([4,6],[1,1]) has finished by raising.
C3_Witness ==
    /\ op = "CRT" /\ pc = "done"
    /\ moudle = <<4, 6>> /\ a = <<1, 1>>
    /\ crt_ret.kind = "raise"

----------------------------------------------------------------------------
(* Properties of the miners *)

MinerReturnedPair == pc = "done" /\ ret.kind = "pair"

\* the returned strings without their 0x prefix
ReturnedSalt == Remove0x(ret.salt)
ReturnedAddress == Remove0x(ret.address)

\* the nibbles of a string of hexadecimal digits
NibblesOf(s) == [j \in 1..Len(s) |-> NibbleOf(s[j])]

\* keccak(0xff || deployer || salt || initCodeHash)[12:], computed from the
\* bytes of the three values and rendered in hex
RecomputedAddress(deployer, salt, hash) ==
    LET message == <<15, 15>> \o NibblesOf(deployer) \o NibblesOf(salt)
                      \o NibblesOf(hash)
    IN SubSeq(Keccak256Hex(message), 25, 64)

\* c occupies the characters off .. off+Len(c)-1 (0-based) of addr
AppearsAt(c, addr, off) ==
    \A j \in 1..Len(c) : (off + j) \in 1..Len(addr) /\ addr[off + j] = c[j]

\* the single constraint as the position semantics state it: a forward
\* offset, an offset from the end, or anywhere in the last four characters
SingleSatisfied(c, p, addr) ==
    IF p >= 0 THEN AppearsAt(c, addr, p)
    ELSE IF p # TailPosition THEN AppearsAt(c, addr, Len(addr) + p)
    ELSE \E off \in (Len(addr) - 4)..Len(addr) : AppearsAt(c, addr, off)

\* both constraints of the two-constraint form
TwoSatisfied(c1, c2, p1, p2, addr) ==
    /\ AppearsAt(c1, addr, IF p1 < 0 THEN Len(addr) + p1 ELSE p1)
    /\ AppearsAt(c2, addr, IF p2 < 0 THEN Len(addr) + p2 ELSE p2)

\* the constraint(s) of the running call hold of the address of counter n
SatisfiedAtCounter(n) ==
    LET addr == AddressAt(DeployAddress, BytecodeHash, n).address
    IN IF op = "Create2" THEN SingleSatisfied(content, position, addr)
       ELSE TwoSatisfied(content, content2, position, position2, addr)

\* C4: whenever either miner returns (salt, address), the address is the low
\* 20 bytes of keccak(0xff || deployer || returned salt || initCodeHash).
C4_AddressOfReturnedSalt ==
    MinerReturnedPair =>
        /\ Len(ReturnedSalt) = SaltWidth
        /\ ret.address = <<"0", "x">> \o
              RecomputedAddress(DeployAddress, ReturnedSalt, BytecodeHash)

\* C4 witness: a miner has returned a pair found at a counter above 1.
C4_Witness == MinerReturnedPair /\ i > 1 /\ Len(DeployAddress) = 40

\* C5 as stated: a pair returned by the single-constraint search has content
\* exactly at position (position >= 0) or at 40+position (position < 0).
C5_ContentAtPosition ==
    (MinerReturnedPair /\ op = "Create2") =>
        /\ Len(ReturnedAddress) = 40
        /\ IF position >= 0
             THEN AppearsAt(content, ReturnedAddress, position)
             ELSE AppearsAt(content, ReturnedAddress, 40 + position)

\* C5 amended: a pair returned by the single-constraint search has content
\* exactly at position (position >= 0) or at 40+position (position < 0 other
\* than -4); for position -4 content lies somewhere within the last four
\* characters of the address.
C5_ContentAtPositionOrTail ==
    (MinerReturnedPair /\ op = "Create2") =>
        /\ Len(ReturnedAddress) = 40
        /\ IF position >= 0
             THEN AppearsAt(content, ReturnedAddress, position)
             ELSE IF position # -4
               THEN AppearsAt(content, ReturnedAddress, 40 + position)
               ELSE \E off \in 36..40 : AppearsAt(content, ReturnedAddress, off)

\* C5 witness: the single-constraint search has returned for a non-empty
\* content at a negative position other than -4.
C5_Witness ==
    /\ MinerReturnedPair /\ op = "Create2"
    /\ position < 0 /\ position # -4 /\ Len(content) > 0

\* C6: first match wins. When a miner returns the salt of counter i, no
\* counter below i gives an address that satisfies the constraint(s).
C6_FirstMatchWins ==
    MinerReturnedPair =>
        /\ ret.salt = <<"0", "x">> \o Salt(i)
        /\ \A j \in 0..(i - 1) : ~SatisfiedAtCounter(j)

\* C6 witness: a miner has returned at a counter above 2 after some address
\* was rejected.
C6_Witness == MinerReturnedPair /\ i > 2 /\ Len(content) > 0

\* C7: a pair returned by the two-constraint search for non-negative
\* positions has content1 at position1 and content2 at position2.
C7_BothConstraints ==
    (MinerReturnedPair /\ op = "Create2_two" /\ position >= 0 /\ position2 >= 0)
        => /\ AppearsAt(content, ReturnedAddress, position)
           /\ AppearsAt(content2, ReturnedAddress, position2)

\* C7 witness: the two-constraint search has returned for two non-empty
\* contents at two different non-negative positions.
C7_Witness ==
    /\ MinerReturnedPair /\ op = "Create2_two"
    /\ position >= 0 /\ position2 >= 0 /\ position # position2
    /\ Len(content) > 0 /\ Len(content2) > 0

\* the two constraints ask for different characters at the same place
MutuallyExclusive ==
    /\ op = "Create2_two"
    /\ position = position2
    /\ \E j \in 1..Len(content) : j <= Len(content2) /\ content[j] # content2[j]

\* the deployer and the hash of the call are hexadecimal strings
HexCall == AddressAt(DeployAddress, BytecodeHash, 0).ok

\* C8: a two-constraint search with mutually exclusive constraints never
\* returns a pair, and (for a hexadecimal deployer and hash) every run of it
\* ends in the timeout failure.
C8_ExclusiveTimesOut ==
    /\ [](MutuallyExclusive => ret.kind # "pair")
    /\ (MutuallyExclusive /\ HexCall /\ pc = "miner_loop")
          ~> (pc = "done" /\ ret.kind = "None" /\ logged = TimeoutMessage)

\* C8 witness: a mutually exclusive search has ended by timeout after
\* rejecting candidates.
C8_Witness ==
    /\ MutuallyExclusive /\ HexCall /\ pc = "done" /\ i > 0
    /\ logged = TimeoutMessage

\* C9: with the clock advancing, every search ends, by a returned pair or by
\* the failure value, and the timeout failure comes only once 10 seconds
\* have elapsed since the search began.
C9_Terminates ==
    /\ [](logged = TimeoutMessage => now - start_time >= 10)
    /\ (pc = "miner_loop") ~> (pc = "done" /\ ret.kind \in {"pair", "None"})

\* C9 witness: a search whose content no address can contain has ended by
\* the timeout.
C9_Witness ==
    /\ pc = "done" /\ content = <<"A">> /\ logged = TimeoutMessage
    /\ ret.kind = "None"

\* C10: a single-constraint search that ends by timeout returns the failure
\* value, which is no pair; a returned pair is never accompanied by a failure
\* and its address satisfies the constraint.
C10_TimeoutIsFailure ==
    /\ (op = "Create2" /\ pc = "done" /\ logged = TimeoutMessage)
          => (ret.kind = "None" /\ ret # Pair(ret.salt, ret.address))
    /\ (op = "Create2" /\ ret.kind = "pair")
          => /\ logged = ""
             /\ SingleSatisfied(content, position, ReturnedAddress)

\* C10 witness: a single-constraint search has timed out after rejecting
\* candidates and has returned the failure value.
C10_Witness ==
    /\ op = "Create2" /\ pc = "done" /\ logged = TimeoutMessage
    /\ i > 0 /\ ret.kind = "None"

----------------------------------------------------------------------------
(* Properties of repeated searches *)

\* both of two identical calls returned a match
BothCallsMatched ==
    /\ calls = 2
    /\ pc = "done"
    /\ ret.kind = "pair"
    /\ first_ret.kind = "pair"

\* C11: when the same search (same deployer, init-code hash and constraints)
\* is run twice and both runs end with a match, the second run returns the
\* very pair (salt, address) the first one returned, whatever the clock showed
\* when either run began and although another call ran before it.
C11_RepeatedRunsAgree == BothCallsMatched => ret = first_ret

\* two identical searches, the second begun later than time 0, matched at a
\* counter beyond 1
C11_Witness == BothCallsMatched /\ i > 1 /\ start_time > 0

----------------------------------------------------------------------------
(* Properties of the positions of GetSpecialAddressByCreate2 *)

\* a single-constraint search on hexadecimal arguments
SingleSearch == op = "Create2" /\ calls >= 1 /\ HexCall

\* the address of counter n of the running call
AddressOfCounter(n) == AddressAt(DeployAddress, BytecodeHash, n).address

\* C12: for a negative position other than -4 the single-constraint search
\* uses negative indexing: it returns only an address whose characters from
\* offset 40+position on equal content, and it returns the first such
\* address, so that no counter it has passed had such an address (content
\* 'ab' at position -2: the first address that ends in 'ab').
C12_NegativeIndexing ==
    (SingleSearch /\ position < 0 /\ position # TailPosition) =>
        /\ MinerReturnedPair =>
              AppearsAt(content, ReturnedAddress, 40 + position)
        /\ \A n \in 0..(i - 1) :
              ~AppearsAt(content, AddressOfCounter(n), 40 + position)

\* content occurs as a contiguous substring of the last four characters
InLastFour(c, addr) ==
    \E off \in 36..(40 - Len(c)) : AppearsAt(c, addr, off)

\* C13: with position -4 the single-constraint search accepts an address
\* exactly when content occurs somewhere within characters 36..39 of it: a
\* returned address has content there, and no address of a counter the
\* search has passed had it there.
C13_TailSentinel ==
    (SingleSearch /\ position = TailPosition) =>
        /\ MinerReturnedPair => InLastFour(content, ReturnedAddress)
        /\ \A n \in 0..(i - 1) : ~InLastFour(content, AddressOfCounter(n))

\* a tail search returned, after passing at least three addresses, an address
\* that has content in its last four characters but not at character 36
C13_Witness ==
    /\ SingleSearch
    /\ position = TailPosition
    /\ MinerReturnedPair
    /\ i > 2
    /\ Len(content) >= 1
    /\ ~AppearsAt(content, ReturnedAddress, 36)

----------------------------------------------------------------------------
(* Properties of the validation of arguments *)

\* the constraint does not fit into the 40 characters of an address
OutOfRange(c, p) == p >= 0 /\ p + Len(c) > 40

\* C14: a single-constraint call whose non-negative position and content do
\* not fit into the address (position + len(content) > 40) is rejected as
\* invalid input without searching: no candidate is passed over, the call does
\* not end by the timeout, and it returns no pair.
C14_OutOfRangeRejected ==
    (SingleSearch /\ OutOfRange(content, position)) =>
        /\ i = 0
        /\ logged # TimeoutMessage
        /\ ~MinerReturnedPair

\* C15: a call of CRT whose lists of moduli and remainders differ in length,
\* the remainders being fewer or more than the moduli, fails: it never
\* returns an integer.
C15_MismatchedLengthsFail ==
    (op = "CRT" /\ Len(moudle) # Len(a)) => crt_ret.kind # "return"

\* C16: the two-constraint search supports forward offsets only: a call in
\* which position1 or position2 is negative never returns a pair as a match.
C16_NegativeNeverMatches ==
    (op = "Create2_two" /\ calls >= 1 /\ (position < 0 \/ position2 < 0)) =>
        ~MinerReturnedPair

----------------------------------------------------------------------------
(* Properties of the external representation *)

\* the characters of lowercase hexadecimal text
LowerHex == {HexDigits[j] : j \in 1..16}

\* "0x" followed by exactly n lowercase hexadecimal characters
IsPrefixedLowerHex(s, n) ==
    /\ Len(s) = n + 2
    /\ s[1] = "0"
    /\ s[2] = "x"
    /\ \A j \in 3..Len(s) : s[j] \in LowerHex

\* C17: every pair either miner returns is rendered with a 0x prefix and in
\* lowercase hex: the salt is "0x" and exactly 64 lowercase hex characters,
\* the address "0x" and exactly 40 lowercase hex characters.
C17_ResultRendering ==
    MinerReturnedPair =>
        /\ IsPrefixedLowerHex(ret.salt, 64)
        /\ IsPrefixedLowerHex(ret.address, 40)

\* a pair returned for a counter whose hex form has a letter digit
C17_Witness == MinerReturnedPair /\ i >= 10

\* the string begins with 0x
Prefixed(s) == Len(s) >= 2 /\ s[1] = "0" /\ s[2] = "x"

\* the test of the running call accepts the address that deployer d and
\* init-code hash h have at counter n
AcceptsCounter(d, h, n) ==
    LET addr == AddressAt(d, h, n).address
    IN IF op = "Create2"
         THEN Create2Match(content, position, addr)
         ELSE Create2TwoMatch(content, content2, position, position2, addr)

\* the pair the call returns for deployer d and init-code hash h when it
\* stops at counter n
PairOfCounter(d, h, n) == Pair(Salt(n), AddressAt(d, h, n).address)

\* C18: a deployer address or init-code hash given with a 0x prefix is
\* accepted and searched like the same value without the prefix: the call
\* does not fail on the prefix, and unless it times out it returns the pair
\* of the first counter that the unprefixed values match.
C18_PrefixedInputsAccepted ==
    (calls >= 1 /\ (Prefixed(DeployAddress) \/ Prefixed(BytecodeHash))) =>
        /\ logged # HexErrorMessage
        /\ \A n \in 0..MaxCounter :
              ( /\ pc = "done"
                /\ logged # TimeoutMessage
                /\ AcceptsCounter(Remove0x(DeployAddress),
                                  Remove0x(BytecodeHash), n)
                /\ \A m \in 0..(n - 1) :
                      ~AcceptsCounter(Remove0x(DeployAddress),
                                      Remove0x(BytecodeHash), m) )
              => ret = PairOfCounter(Remove0x(DeployAddress),
                                     Remove0x(BytecodeHash), n)

----------------------------------------------------------------------------
(* Properties of the request-authorization switch *)

\* the answers that let a transaction go out
Approvals == {"yes", "1", ""}

\* a sending operation of an account whose switch is on has reached its
\* prompt or its end
GatedOperation ==
    /\ account = "ready"
    /\ Request
    /\ sending \in SendOps
    /\ acct_pc \in {"input", "returned"}

\* C19: while the request-authorization switch is on, every sending operation
\* asks the user before it broadcasts: send_raw_transaction has been invoked
\* only when the prompt was answered with 'yes', '1' or an empty line, and
\* after any other answer nothing has been broadcast and the operation
\* returns None.
C19_AuthorizationGate ==
    GatedOperation =>
        /\ sent => (asked /\ Command \in Approvals)
        /\ (asked /\ Command \notin Approvals) => (~sent /\ tx_ret = "None")

\* with the switch on, a call through Contract.CallFunction was answered by
\* something other than an approval, after an earlier transaction went out
C19_Witness ==
    /\ GatedOperation
    /\ acct_pc = "returned"
    /\ sending = "CallFunction"
    /\ asked
    /\ Command = "maybe"
    /\ broadcasts = 1

\* C20: right after an Account is initialised the request-authorization
\* switch is off; it is on only once the caller has made an explicit call of
\* RequestAuthorizationBeforeSendTransaction.
C20_OffAfterInit == (account = "ready" /\ ~explicit) => ~Request

----------------------------------------------------------------------------
(* Properties of the signature conversions *)

\* the string in lowercase
Lowered(s) == [j \in 1..Len(s) |-> LowerChar(s[j])]

\* C21: splitting and merging are inverse to each other. SignatureToRSV of a
\* 65-byte signature returns R, S and V from which RSVToSignature succeeds
\* and returns that signature again; RSVToSignature of a 32-byte R, a 32-byte
\* S and a 1-byte V returns a signature from which SignatureToRSV returns the
\* same R, S and V.
C21_SplitMergeRoundTrip ==
    /\ sig_pc \in {"split", "merged"} => sig_ret.kind = "dict"
    /\ sig_pc = "split_merged" =>
          /\ sig_ret.kind = "dict"
          /\ sig_ret.Signature = Lowered(Signature)
    /\ sig_pc = "merged_split" =>
          /\ sig_ret.kind = "dict"
          /\ sig_ret.R = Lowered(R)
          /\ sig_ret.S = Lowered(S)
          /\ sig_ret.V = Lowered(V)

----------------------------------------------------------------------------
(* Properties of the counter and of the loop of the miners *)

\* the number a string of hexadecimal digits denotes
RECURSIVE HexValue(_)
HexValue(s) ==
    IF Len(s) = 0 THEN 0
    ELSE 16 * HexValue(SubSeq(s, 1, Len(s) - 1)) + NibbleOf(s[Len(s)])

\* C22: in both miners the counter starts at 0 when a call begins and goes up
\* by exactly 1 whenever a pass of the loop changes it, and the salt of every
\* counter a search stands at is the hexadecimal form of the counter padded
\* with zeros to exactly 64 characters.
C22_CounterAndSalt ==
    [][ /\ (pc # "miner_loop" /\ pc' = "miner_loop") => i' = 0
        /\ (pc = "miner_loop" /\ i' # i) => i' = i + 1
        /\ pc' = "miner_loop" =>
              /\ Len(Salt(i')) = 64
              /\ HexValue(Salt(i')) = i' ]_vars

\* a search has rejected the candidates of ten counters
C22_Witness == pc = "miner_loop" /\ i >= 10

\* a search on hexadecimal arguments ended by the timeout
TimedOut ==
    /\ pc = "done"
    /\ op \in {"Create2", "Create2_two"}
    /\ HexCall
    /\ ret = ExceptReturn
    /\ logged = TimeoutMessage

\* C23: in each pass the candidate is tested before the clock is looked at,
\* so a candidate that satisfies the constraint(s) is returned even when the
\* time is up: a search ends by the timeout only at a counter whose candidate
\* the test rejects.
C23_CandidateBeforeTimeout ==
    TimedOut => ~AcceptsCounter(DeployAddress, BytecodeHash, i)

\* C23 amended: in each pass the clock is looked at before the candidate is
\* computed. A pair is returned only by a pass that began with less than the
\* 10 seconds elapsed, and a pass that begins with 10 seconds or more elapsed
\* ends the search by the timeout whether or not its candidate satisfies the
\* constraint(s).
C23_TimeoutBeforeCandidate ==
    /\ MinerReturnedPair => Elapsed(now, start_time) < Timeout
    /\ TimedOut => Elapsed(now, start_time) >= Timeout

\* a search timed out at a counter above 0 whose candidate satisfies the test
C23_Witness ==
    /\ TimedOut
    /\ i > 0
    /\ AcceptsCounter(DeployAddress, BytecodeHash, i)

----------------------------------------------------------------------------
(* Properties of the failures of the miners *)

\* a call of a miner has ended
MinerEnded == pc = "done" /\ op \in {"Create2", "Create2_two"}

\* the exceptions raised inside a search
Failures == {TimeoutMessage, HexErrorMessage, TypeErrorMessage}

\* C24: no exception leaves a miner. A call ends with a pair or with None,
\* and a call in which the timeout, a deployer or hash that is not
\* hexadecimal, or a content that is not a string raised an exception ends
\* with None.
C24_NeverRaises ==
    MinerEnded =>
        /\ ret.kind \in {"pair", "None"}
        /\ logged \in Failures => ret.kind = "None"

\* the two-constraint search ended on a content2 that is not a string, which
\* was first evaluated at a counter above 0
C24_Witness ==
    /\ MinerEnded
    /\ logged = TypeErrorMessage
    /\ nonstr = "content2"
    /\ i > 0

\* what the caller receives from a call whose deployer or hash is not
\* hexadecimal: the value of the except clause, the log line is not returned
InvalidInputResult == ExceptReturn

\* C25: the failures of a miner are typed: what a search that timed out
\* returns differs from what a call with invalid input (a deployer that is not
\* hexadecimal) returns, so that the caller can tell the two apart.
C25_TypedFailures ==
    (MinerEnded /\ logged = TimeoutMessage) => ret # InvalidInputResult

\* C26: the preimage is always 85 bytes: a call whose deployer is not 20
\* bytes (40 hex characters) or whose init-code hash is not 32 bytes (64 hex
\* characters) never returns a pair.
C26_PreimageIs85Bytes ==
    (op \in {"Create2", "Create2_two"}
       /\ (Len(DeployAddress) # 40 \/ Len(BytecodeHash) # 64)) =>
        ~MinerReturnedPair

----------------------------------------------------------------------------
(* Properties of interleaved invocations *)

\* what CRT returns or raises when it runs from iteration kk on without any
\* other invocation in between
RECURSIVE CRTFrom(_, _, _, _, _)
CRTFrom(ms, as, MM, kk, res) ==
    IF kk > Len(ms) THEN Returned(res % MM)
    ELSE LET mi == ms[kk]
             Mi == MM \div mi
             inv_Mi == invert(Mi, mi)
         IN IF ~inv_Mi.ok THEN Raised("ZeroDivisionError")
            ELSE CRTFrom(ms, as, MM, kk + 1,
                         Accumulate(res, Remainder(ms, as, mi), Mi,
                                    inv_Mi.value, MM))

\* the outcome of CRT(ms, as) run alone
CRTAlone(ms, as) == CRTFrom(ms, as, Product(ms), 1, 0)

\* the counters from 0 on whose address the test of a single-constraint call
\* accepts
AcceptedCounters(d, h, c, p) ==
    {n \in 0..MaxCounter : Create2Match(c, p, AddressAt(d, h, n).address)}

\* the pair a single-constraint search returns when it runs alone and finds a
\* match
Create2Alone(d, h, c, p) ==
    LET n == CHOOSE n \in AcceptedCounters(d, h, c, p) :
                 \A m \in AcceptedCounters(d, h, c, p) : n <= m
    IN PairOfCounter(d, h, n)

\* invocation f has ended with the outcome it has when it runs alone
SameAsAlone(f) ==
    LET fr == frames[f]
    IN fr.pc = "done" =>
         /\ fr.kind = "CRT" => fr.crt_ret = CRTAlone(fr.moudle, fr.a)
         /\ (fr.kind = "Create2" /\ fr.ret.kind = "pair") =>
               /\ AcceptedCounters(fr.DeployAddress, fr.BytecodeHash,
                                   fr.content, fr.position) # {}
               /\ fr.ret = Create2Alone(fr.DeployAddress, fr.BytecodeHash,
                                        fr.content, fr.position)

\* a step leaves the arguments of every invocation that has been called as
\* they are
ArgumentsKept ==
    \A f \in Invocations :
        frames[f].pc # "idle" =>
            /\ frames'[f].moudle = frames[f].moudle
            /\ frames'[f].a = frames[f].a
            /\ frames'[f].DeployAddress = frames[f].DeployAddress
            /\ frames'[f].BytecodeHash = frames[f].BytecodeHash
            /\ frames'[f].content = frames[f].content
            /\ frames'[f].position = frames[f].position

----------------------------------------------------------------------------
(* Properties of particular contents *)

\* the salt of counter 0 as it is returned
ZeroSalt == <<"0", "x">> \o [j \in 1..64 |-> "0"]

\* a search with nothing to look for: content is the empty string and, in the
\* two-constraint form, content2 as well
EmptySearch ==
    /\ HexCall
    /\ nonstr = "none"
    /\ content = <<>>
    /\ \/ op = "Create2"
       \/ op = "Create2_two" /\ content2 = <<>>

\* C28: with the empty string as content the single-constraint search
\* accepts the very first candidate whatever the position, and so does the
\* two-constraint search when both contents are empty: the search never moves
\* past counter 0, the pair it returns has the salt 0x and 64 zeros, and it
\* returns that pair unless the time was up before the first pass.
C28_EmptyContentMatchesFirst ==
    EmptySearch =>
        /\ i = 0
        /\ MinerReturnedPair => ret.salt = ZeroSalt
        /\ MinerEnded => (MinerReturnedPair \/ logged = TimeoutMessage)

\* empty searches returned at a negative position: the single-constraint one
\* at the position before the start of the address, the two-constraint one on
\* a 19-byte deployer
C28_Witness ==
    /\ EmptySearch
    /\ MinerReturnedPair
    /\ \/ op = "Create2" /\ position = -41
       \/ op = "Create2_two" /\ position = -3 /\ Len(DeployAddress) = 38

\* the string has a character that is no lowercase hexadecimal digit
HasNonHex(c) ==
    \E j \in 1..Len(c) :
        c[j] \notin {"0", "1", "2", "3", "4", "5", "6", "7",
                     "8", "9", "a", "b", "c", "d", "e", "f"}

\* a search on hexadecimal arguments for a content that has such a character
NonHexSearch ==
    /\ op \in {"Create2", "Create2_two"}
    /\ HexCall
    /\ nonstr = "none"
    /\ \/ HasNonHex(content)
       \/ op = "Create2_two" /\ HasNonHex(content2)

\* C29: addresses are rendered in lowercase and compared as they are, so a
\* content with a character outside 0-9a-f (an uppercase A-F included) is
\* matched by no counter: the search never returns a pair, and it always ends
\* in the timeout failure.
C29_NonHexNeverMatches ==
    /\ [](NonHexSearch => ~MinerReturnedPair)
    /\ (NonHexSearch /\ pc = "miner_loop")
          ~> (NonHexSearch /\ MinerEnded /\ ret = ExceptReturn
                /\ logged = TimeoutMessage)

\* a two-constraint search for an uppercase content2 timed out after it had
\* rejected every candidate up to the last counter
C29_Witness ==
    /\ NonHexSearch
    /\ op = "Create2_two"
    /\ MinerEnded
    /\ logged = TimeoutMessage
    /\ i = MaxCounter

\* the permutations of the positions 1..n
Rearrangements(n) ==
    {p \in [1..n -> 1..n] : \A x \in 1..n : \A y \in 1..n : x # y => p[x] # p[y]}

\* the list s with its elements rearranged by the permutation p
Permuted(s, p) == [j \in 1..Len(s) |-> s[p[j]]]

\* a call with pairwise-coprime moduli and as many remainders as moduli
CoprimeCall ==
    /\ op = "CRT"
    /\ Len(moudle) > 0
    /\ Len(a) = Len(moudle)
    /\ PairwiseCoprime(moudle)

\* C30: order independence. For pairwise-coprime moduli the value CRT returns
\* is the value it returns for the moduli and the remainders rearranged by any
\* one permutation, and every loop iteration combines its modulus moudle[k]
\* with the remainder at the same position, a[k].
C30_OrderIndependent ==
    /\ (CoprimeCall /\ pc = "done") =>
          /\ crt_ret.kind = "return"
          /\ \A p \in Rearrangements(Len(moudle)) :
                CRTAlone(Permuted(moudle, p), Permuted(a, p)) = crt_ret
    /\ (CoprimeCall /\ pc = "crt_loop" /\ k <= Len(moudle)) =>
          Remainder(moudle, a, moudle[k]) = a[k]

\* CRT has returned a non-zero value for three different moduli above 1 given
\* in no sorted order, with three different non-zero remainders
C30_Witness ==
    /\ CoprimeCall /\ pc = "done"
    /\ crt_ret.kind = "return" /\ crt_ret.value > 0
    /\ Len(moudle) = 3
    /\ moudle[1] > moudle[2] /\ moudle[3] > moudle[1] /\ moudle[2] > 1
    /\ \A j \in 1..3 : a[j] > 0
    /\ a[1] # a[2] /\ a[2] # a[3] /\ a[1] # a[3]

====
